---------------------------- MODULE Spec2Model ----------------------------
(***************************************************************************)
(* A model of the Drummer step sequencer (app/public/drummer.ts): tempo,   *)
(* pattern store, share-token codec, transport, lookahead scheduler and    *)
(* the asynchronous offline rendering of the three voices.                  *)
(***************************************************************************)
EXTENDS Integers, Sequences, FiniteSets, TLC

VARIABLES
    tempoBpm,      \* Drummer.tempoBpm: a JS number
    patterns,      \* Drummer.patterns: instrument -> sequence of velocities
    isPlaying,     \* Drummer._isPlaying
    current16th,   \* Drummer.current16th
    nextNoteTime,  \* Drummer.nextNoteTime: a JS number (seconds)
    intervalId,    \* Drummer.intervalId: 0 models null, n > 0 is a timer id
    timers,        \* the ids of the window's active setInterval timers
    audioCtx,      \* Drummer.audioCtx # null
    currentTime,   \* audioCtx.currentTime: the hardware clock (seconds)
    rendering,     \* the voices whose offline render is still pending
    buffer,        \* instrument -> whether Drum.#buffer is set
    renders,       \* instrument -> number of offline renders started
    created,       \* audio node -> number of times it was created
    awaiting,      \* play() calls suspended at `await audioCtx.resume()`
    pending,       \* per suspended play(), oldest first: was the machine
                   \* playing when it was called, has a stop() run since
    lastStep,      \* the last (step, time) scheduled in this playing session
    reached,       \* current16th as the last stop() found it
    triggers,      \* the (drum, time, gain) triggers handed to the hardware
    events,        \* the events dispatched by the last step, in order
    scheduled,     \* the steps the last scheduler run scheduled: step, time
                   \* and the voices played with their volumes and times
    observed,      \* what a change-event observer last read from the drummer
    threw,         \* whether the last call raised an exception
    token,         \* the last value serialize() returned (the ?patterns= value)
    tokenPatterns, \* the pattern serialize() was called on
    flipped,       \* whether toggle() has been called an odd number of times
    lastOp         \* the last call made on the drummer

vars == <<tempoBpm, patterns, isPlaying, current16th, nextNoteTime, intervalId,
          timers, audioCtx, currentTime, rendering, buffer,
          renders, created, awaiting, pending, lastStep, reached, triggers, events,
          scheduled,
          observed, threw, token,
          tokenPatterns, flipped, lastOp>>

-----------------------------------------------------------------------------
(* JS numbers: NaN, undefined, +/-Infinity and exact rationals n/d.        *)

RECURSIVE GCD(_, _)
GCD(a, b) == IF b = 0 THEN a ELSE GCD(b, a % b)

Abs(x) == IF x < 0 THEN -x ELSE x

NaN == [k |-> "nan", n |-> 0, d |-> 1]
Undefined == [k |-> "undef", n |-> 0, d |-> 1]
PosInf == [k |-> "inf", n |-> 1, d |-> 1]
NegInf == [k |-> "inf", n |-> -1, d |-> 1]

Fin(n, d) ==
    LET g == GCD(Abs(n), d)
    IN [k |-> "fin", n |-> n \div g, d |-> d \div g]

Num(n) == [k |-> "fin", n |-> n, d |-> 1]

IsNaN(x) == x.k \in {"nan", "undef"}

\* ToBoolean on a number or undefined
Truthy(x) == ~IsNaN(x) /\ ~(x.k = "fin" /\ x.n = 0)

\* x < y on JS numbers: false when either is NaN
Lt(x, y) ==
    /\ ~IsNaN(x)
    /\ ~IsNaN(y)
    /\ CASE x.k = "inf" /\ y.k = "inf" -> x.n < y.n
         [] x.k = "inf" -> x.n < 0
         [] y.k = "inf" -> y.n > 0
         [] OTHER -> x.n * y.d < y.n * x.d

MathFloor(x) ==
    CASE IsNaN(x) -> NaN
      [] x.k = "inf" -> x
      [] OTHER -> Num(x.n \div x.d)

MathMin(x, y) ==
    IF IsNaN(x) \/ IsNaN(y) THEN NaN ELSE IF Lt(y, x) THEN y ELSE x

MathMax(x, y) ==
    IF IsNaN(x) \/ IsNaN(y) THEN NaN ELSE IF Lt(x, y) THEN y ELSE x

\* x + y for a finite or NaN x and y
Plus(x, y) ==
    IF IsNaN(x) \/ IsNaN(y) THEN NaN
    ELSE Fin(x.n * y.d + y.n * x.d, x.d * y.d)

\* x / y for finite or NaN x and finite non-zero or NaN y
Over(x, y) ==
    IF IsNaN(x) \/ IsNaN(y) THEN NaN
    ELSE IF y.n < 0 THEN Fin(-(x.n * y.d), x.d * (-y.n))
    ELSE Fin(x.n * y.d, x.d * y.n)

-----------------------------------------------------------------------------
(* Program constants.                                                      *)

minBpm == 30
maxBpm == 300
lookaheadMs == 25
scheduleAheadS == Fin(1, 10)
StepCount == 16
TokenBytes == 48
NoteOn == 80
MaxVolume == 100
DefaultBpm == 120

Instrument == {"hihat", "snare", "kicks"}

\* what ensureContext() and createAnalyser() create besides the voices
AudioNode == {"audioCtx", "masterGain", "analyser"}

\* Drummer.defaultPatterns
defaultPatterns ==
    <<80, 0, 80, 0, 80, 0, 80, 80, 80, 80, 80, 0, 80, 0, 80, 0,
      0, 0, 0, 0, 80, 0, 0, 0, 0, 0, 0, 0, 80, 0, 0, 0,
      80, 0, 0, 0, 0, 0, 0, 0, 0, 0, 80, 0, 0, 0, 0, 0>>


-----------------------------------------------------------------------------
(* The share-token codec.  A string is a sequence of one-character strings; *)
(* a binary string or byte array is a sequence of numbers in 0..255.        *)

Base64Alphabet ==
    <<"A", "B", "C", "D", "E", "F", "G", "H", "I", "J", "K", "L", "M",
      "N", "O", "P", "Q", "R", "S", "T", "U", "V", "W", "X", "Y", "Z",
      "a", "b", "c", "d", "e", "f", "g", "h", "i", "j", "k", "l", "m",
      "n", "o", "p", "q", "r", "s", "t", "u", "v", "w", "x", "y", "z",
      "0", "1", "2", "3", "4", "5", "6", "7", "8", "9", "+", "/">>

Base64Chars == {Base64Alphabet[i] : i \in 1..64}

Base64Index(c) == (CHOOSE i \in 1..64 : Base64Alphabet[i] = c) - 1

AsciiWhitespace == {" ", "\t", "\n", "\f", "\r"}

Repeat(c, n) == [i \in 1..n |-> c]

ReplaceAll(s, from, to) == [i \in 1..Len(s) |-> IF s[i] = from THEN to ELSE s[i]]

\* s.replace(/=+$/, "")
RECURSIVE StripTrailingPad(_)
StripTrailingPad(s) ==
    IF Len(s) > 0 /\ s[Len(s)] = "="
    THEN StripTrailingPad(SubSeq(s, 1, Len(s) - 1))
    ELSE s

ByteAt(bytes, i) == IF i <= Len(bytes) THEN bytes[i] ELSE 0

\* window.btoa on a binary string
Btoa(bytes) ==
    LET n == Len(bytes)
        digits == (8 * n + 5) \div 6
        total == 4 * ((n + 2) \div 3)
        Digit(i) ==
            LET g == (i - 1) \div 4
                r == (i - 1) % 4
                b0 == ByteAt(bytes, 3 * g + 1)
                b1 == ByteAt(bytes, 3 * g + 2)
                b2 == ByteAt(bytes, 3 * g + 3)
            IN CASE r = 0 -> b0 \div 4
                 [] r = 1 -> (b0 % 4) * 16 + b1 \div 16
                 [] r = 2 -> (b1 % 16) * 4 + b2 \div 64
                 [] OTHER -> b2 % 64
    IN [i \in 1..total |->
           IF i <= digits THEN Base64Alphabet[Digit(i) + 1] ELSE "="]

IsNotWhitespace(c) == c \notin AsciiWhitespace

\* window.atob (the forgiving-base64 decode): ok = FALSE models the
\* InvalidCharacterError it throws
Atob(data) ==
    LET s1 == SelectSeq(data, IsNotWhitespace)
        n1 == Len(s1)
        s2 == IF n1 % 4 = 0 /\ n1 >= 2 /\ s1[n1] = "=" /\ s1[n1 - 1] = "="
              THEN SubSeq(s1, 1, n1 - 2)
              ELSE IF n1 % 4 = 0 /\ n1 >= 1 /\ s1[n1] = "="
              THEN SubSeq(s1, 1, n1 - 1)
              ELSE s1
        n2 == Len(s2)
        Byte(j) ==
            LET g == (j - 1) \div 3
                r == (j - 1) % 3
                d0 == Base64Index(s2[4 * g + 1])
                d1 == Base64Index(s2[4 * g + 2])
                d2 == Base64Index(s2[4 * g + 3])
                d3 == Base64Index(s2[4 * g + 4])
            IN CASE r = 0 -> d0 * 4 + d1 \div 16
                 [] r = 1 -> (d1 % 16) * 16 + d2 \div 4
                 [] OTHER -> (d2 % 4) * 64 + d3
    IN IF n2 % 4 = 1 \/ \E i \in 1..n2 : s2[i] \notin Base64Chars
       THEN [ok |-> FALSE, bytes |-> <<>>]
       ELSE [ok |-> TRUE, bytes |-> [j \in 1..((6 * n2) \div 8) |-> Byte(j)]]

b64UrlEncode(buf) ==
    ReplaceAll(ReplaceAll(StripTrailingPad(Btoa(buf)), "+", "-"), "/", "_")

\* b64UrlDecode without its .replace(/_/g, "/")
b64UrlDecodeKeepsUnderscore(value) ==
    LET m == Len(value) % 4
        padded == value \o Repeat("=", IF m = 0 THEN 0 ELSE 4 - m)
    IN Atob(ReplaceAll(padded, "-", "+"))

b64UrlDecode(value) ==
    LET m == Len(value) % 4
        padded == value \o Repeat("=", IF m = 0 THEN 0 ELSE 4 - m)
    IN Atob(ReplaceAll(ReplaceAll(padded, "-", "+"), "_", "/"))

\* Array.prototype.slice.call(bytes, from, to)
Slice(bytes, from, to) ==
    SubSeq(bytes, from + 1, IF to < Len(bytes) THEN to ELSE Len(bytes))

toDrumPatterns(bytes) ==
    [hihat |-> Slice(bytes, 0, 16),
     snare |-> Slice(bytes, 16, 32),
     kicks |-> Slice(bytes, 32, 48)]

\* the element conversion of new Uint8Array([...])
ToUint8(v) == v % 256

\* serialize() that flattens the tracks as hihat, kicks, snare
serializeKicksSecond(p) ==
    LET flat == p.hihat \o p.kicks \o p.snare
    IN b64UrlEncode([i \in 1..Len(flat) |-> ToUint8(flat[i])])

serialize(p) ==
    LET flat == p.hihat \o p.snare \o p.kicks
    IN b64UrlEncode([i \in 1..Len(flat) |-> ToUint8(flat[i])])

\* deserialize with `bytes.length >= 48` for `bytes.length === 48`
deserializeAtLeast(p, value) ==
    LET dec == b64UrlDecode(value)
    IN IF ~dec.ok THEN [patterns |-> p, threw |-> TRUE]
       ELSE IF Len(dec.bytes) >= TokenBytes
       THEN [patterns |-> toDrumPatterns(dec.bytes), threw |-> FALSE]
       ELSE [patterns |-> p, threw |-> FALSE]

\* Drummer.deserialize: the pattern after the call, and whether it threw
deserialize(p, value) ==
    LET dec == b64UrlDecode(value)
    IN IF ~dec.ok THEN [patterns |-> p, threw |-> TRUE]
       ELSE IF Len(dec.bytes) = TokenBytes
       THEN [patterns |-> toDrumPatterns(dec.bytes), threw |-> FALSE]
       ELSE [patterns |-> p, threw |-> FALSE]

-----------------------------------------------------------------------------
(* Tempo and pattern values.                                               *)

\* Math.max(minBpm, Math.min(maxBpm, x))
ClampBpm(x) == MathMax(Num(minBpm), MathMin(Num(maxBpm), x))

\* the value the constructor stores
ConstructTempo(bpm) == ClampBpm(MathFloor(bpm))

\* the value setTempo(bpm) stores when the tempo is cur
SetTempoValue(bpm, cur) ==
    ClampBpm(MathFloor(IF Truthy(bpm) THEN bpm ELSE cur))

\* state ? 100 : 0
ToggleValueFull(state) == IF state THEN MaxVolume ELSE 0

\* state ? 80 : 0
ToggleValue(state) == IF state THEN NoteOn ELSE 0

\* (v + delta) % 101: a volume that wraps around
AdjustValueWraps(v, delta) == (v + delta) % (MaxVolume + 1)

\* Math.min(Math.max(0, v + delta), 100)
AdjustValue(v, delta) ==
    LET lo == IF v + delta > 0 THEN v + delta ELSE 0
    IN IF lo < MaxVolume THEN lo ELSE MaxVolume

\* patterns[drum][note] = v
SetNote(p, drum, note, v) == [p EXCEPT ![drum][note + 1] = v]

\* secondsPer16th() computed once, for the default tempo
secondsPer16thFixed(tempo) == Over(Over(Num(60), Num(DefaultBpm)), Num(4))

\* 60 / Math.max(1, tempoBpm) / 4
secondsPer16th(tempo) == Over(Over(Num(60), MathMax(Num(1), tempo)), Num(4))


-----------------------------------------------------------------------------
(* Events, the observer and the record of the last call.                   *)

EvKick == "drum:kick"
EvSnare == "drum:snare"
EvHat == "drum:hat"
EvPlay == "drum:play"
EvStop == "drum:stop"
EvTempoChange == "drum:tempo-change"
EvChange == "drum:change"

\* what an observer re-reads on a change event: getTrack, bpm, isPlaying
Snapshot(p, t, pl) == [patterns |-> p, tempoBpm |-> t, isPlaying |-> pl]

Op(name) ==
    [op |-> name, drum |-> "", note |-> 0, num |-> Undefined, flag |-> FALSE,
     value |-> <<>>]

storeVars == <<tempoBpm, patterns>>
shareVars == <<token, tokenPatterns>>
cursorVars == <<current16th, nextNoteTime>>
timerVars == <<intervalId, timers>>
audioVars == <<audioCtx, rendering, buffer, renders, created>>
transportVars ==
    <<isPlaying, cursorVars, timerVars, audioVars, currentTime, awaiting,
      pending, lastStep, reached, triggers, scheduled>>

-----------------------------------------------------------------------------
(* The synchronous store operations.                                       *)

\* new Drummer(bpm)
Constructed(bpm) ==
    /\ tempoBpm = ConstructTempo(bpm)
    /\ patterns = toDrumPatterns(defaultPatterns)
    /\ isPlaying = FALSE
    /\ current16th = 0
    /\ nextNoteTime = Num(0)
    /\ intervalId = 0
    /\ timers = {}
    /\ audioCtx = FALSE
    /\ currentTime = Num(0)
    /\ rendering = {}
    /\ buffer = [d \in Instrument |-> FALSE]
    /\ renders = [d \in Instrument |-> 0]
    /\ created = [n \in AudioNode |-> 0]
    /\ awaiting = 0
    /\ pending = <<>>
    /\ lastStep = <<>>
    /\ reached = 0
    /\ triggers = {}
    /\ events = <<>>
    /\ scheduled = <<>>
    /\ observed = Snapshot(patterns, tempoBpm, isPlaying)
    /\ threw = FALSE
    /\ token = <<>>
    /\ tokenPatterns = patterns
    /\ flipped = FALSE
    /\ lastOp = [Op("constructor") EXCEPT !.num = bpm]

SetTempo(bpm) ==
    /\ tempoBpm' = SetTempoValue(bpm, tempoBpm)
    /\ events' = <<EvTempoChange, EvChange>>
    /\ observed' = Snapshot(patterns, tempoBpm', isPlaying)
    /\ threw' = FALSE
    /\ UNCHANGED flipped
    /\ lastOp' = [Op("setTempo") EXCEPT !.num = bpm]
    /\ UNCHANGED <<patterns, transportVars, shareVars>>

\* reset() whose default arrays were shared with the edited pattern
ResetAliased ==
    /\ UNCHANGED patterns
    /\ tempoBpm' = SetTempoValue(Num(DefaultBpm), tempoBpm)
    /\ events' = <<EvTempoChange, EvChange>>
    /\ observed' = Snapshot(patterns', tempoBpm', isPlaying)
    /\ threw' = FALSE
    /\ UNCHANGED flipped
    /\ lastOp' = Op("reset")
    /\ UNCHANGED <<transportVars, shareVars>>

Reset ==
    /\ patterns' = toDrumPatterns(defaultPatterns)
    /\ tempoBpm' = SetTempoValue(Num(DefaultBpm), tempoBpm)
    /\ events' = <<EvTempoChange, EvChange>>
    /\ observed' = Snapshot(patterns', tempoBpm', isPlaying)
    /\ threw' = FALSE
    /\ UNCHANGED flipped
    /\ lastOp' = Op("reset")
    /\ UNCHANGED <<transportVars, shareVars>>

ToggleNote(drum, note, state) ==
    /\ patterns' = SetNote(patterns, drum, note, ToggleValue(state))
    /\ events' = <<EvChange>>
    /\ observed' = Snapshot(patterns', tempoBpm, isPlaying)
    /\ threw' = FALSE
    /\ UNCHANGED flipped
    /\ lastOp' = [Op("toggleNote") EXCEPT
                     !.drum = drum, !.note = note, !.flag = state]
    /\ UNCHANGED <<tempoBpm, transportVars, shareVars>>

AdjustNoteVolume(drum, note, delta) ==
    /\ patterns' =
           SetNote(patterns, drum, note,
                   AdjustValue(patterns[drum][note + 1], delta))
    /\ events' = <<EvChange>>
    /\ observed' = Snapshot(patterns', tempoBpm, isPlaying)
    /\ threw' = FALSE
    /\ UNCHANGED flipped
    /\ lastOp' = [Op("adjustNoteVolume") EXCEPT
                     !.drum = drum, !.note = note, !.num = Num(delta)]
    /\ UNCHANGED <<tempoBpm, transportVars, shareVars>>

Serialize ==
    /\ token' = serialize(patterns)
    /\ tokenPatterns' = patterns
    /\ events' = <<>>
    /\ threw' = FALSE
    /\ UNCHANGED flipped
    /\ lastOp' = Op("serialize")
    /\ UNCHANGED <<storeVars, transportVars, observed>>

Deserialize(value) ==
    /\ LET result == deserialize(patterns, value)
       IN /\ patterns' = result.patterns
          /\ threw' = result.threw
    /\ events' = <<>>
    /\ UNCHANGED flipped
    /\ lastOp' = [Op("deserialize") EXCEPT !.value = value]
    /\ UNCHANGED <<tempoBpm, transportVars, shareVars, observed>>


-----------------------------------------------------------------------------
(* Transport: play, stop, toggle and the asynchronous completions.         *)

MaxAwaiting == 2
MaxQuanta == 4
GrooveQuanta == 30

\* the hardware clock seen at the polling period: n quanta of lookaheadMs
Quanta(n) == Fin(n * lookaheadMs, 1000)

\* ensureContext() without its `if (!this.audioCtx)` test
EnsureContextEveryPlay ==
    /\ audioCtx' = TRUE
    /\ created' = [n \in AudioNode |-> created[n] + 1]
    /\ rendering' = Instrument
    /\ renders' = [d \in Instrument |-> renders[d] + 1]
    /\ UNCHANGED buffer

\* Drummer.ensureContext, reached from play(): creates the context, the
\* master gain, the analyser and the three voices, each of which starts
\* its offline render.  createAnalyser() re-enters ensureContext() after
\* this.audioCtx is assigned, so the nested call creates nothing.
EnsureContext ==
    IF audioCtx
    THEN UNCHANGED audioVars
    ELSE /\ audioCtx' = TRUE
         /\ created' = [n \in AudioNode |-> created[n] + 1]
         /\ rendering' = Instrument
         /\ renders' = [d \in Instrument |-> renders[d] + 1]
         /\ UNCHANGED buffer

\* play(bpm) that installs the polling timer before it awaits the resume
PlayBodyStartsTimer(bpm) ==
    /\ awaiting < MaxAwaiting
    /\ EnsureContext
    /\ IF Truthy(bpm)
       THEN /\ tempoBpm' = SetTempoValue(bpm, tempoBpm)
            /\ events' = <<EvTempoChange, EvChange>>
            /\ observed' = Snapshot(patterns, tempoBpm', isPlaying)
       ELSE /\ events' = <<>>
            /\ UNCHANGED <<tempoBpm, observed>>
    /\ awaiting' = awaiting + 1
    /\ pending' = Append(pending, [playing |-> isPlaying, stopped |-> FALSE])
    /\ threw' = FALSE
    /\ LET id == CHOOSE i \in 1..(Cardinality(timers) + 1) : i \notin timers
       IN /\ intervalId' = id
          /\ timers' = timers \cup {id}
    /\ UNCHANGED <<patterns, isPlaying, cursorVars, currentTime,
                   lastStep, reached, triggers, scheduled, shareVars>>

\* play(bpm) up to its `await this.audioCtx.resume()`
PlayBody(bpm) ==
    /\ awaiting < MaxAwaiting
    /\ EnsureContext
    /\ IF Truthy(bpm)
       THEN /\ tempoBpm' = SetTempoValue(bpm, tempoBpm)
            /\ events' = <<EvTempoChange, EvChange>>
            /\ observed' = Snapshot(patterns, tempoBpm', isPlaying)
       ELSE /\ events' = <<>>
            /\ UNCHANGED <<tempoBpm, observed>>
    /\ awaiting' = awaiting + 1
    /\ pending' = Append(pending, [playing |-> isPlaying, stopped |-> FALSE])
    /\ threw' = FALSE
    /\ UNCHANGED <<patterns, isPlaying, cursorVars, timerVars, currentTime,
                   lastStep, reached, triggers, scheduled, shareVars>>

Play(bpm) ==
    /\ PlayBody(bpm)
    /\ UNCHANGED flipped
    /\ lastOp' = [Op("play") EXCEPT !.num = bpm]

\* play() that resumes at the step the last stop() had reached
PlayResumedAtReached ==
    /\ awaiting > 0
    /\ awaiting' = awaiting - 1
    /\ pending' = Tail(pending)
    /\ IF isPlaying
       THEN /\ events' = <<>>
            /\ UNCHANGED <<isPlaying, current16th, nextNoteTime, timerVars,
                           observed, lastStep>>
       ELSE /\ isPlaying' = TRUE
            /\ lastStep' = <<>>
            /\ nextNoteTime' = currentTime
            /\ current16th' = reached
            /\ LET kept == IF intervalId # 0
                           THEN timers \ {intervalId} ELSE timers
                   \* window.setInterval returns an id no active timer has
                   id == CHOOSE i \in 1..(Cardinality(kept) + 1) : i \notin kept
               IN /\ intervalId' = id
                  /\ timers' = kept \cup {id}
            /\ events' = <<EvPlay, EvChange>>
            /\ observed' = Snapshot(patterns, tempoBpm, TRUE)
    /\ threw' = FALSE
    /\ UNCHANGED flipped
    /\ lastOp' = Op("play:resumed")
    /\ UNCHANGED <<storeVars, audioVars, currentTime, reached,
                   triggers, scheduled, shareVars>>

\* play() after its await: the resume of the audio clock has completed
PlayResumed ==
    /\ awaiting > 0
    /\ awaiting' = awaiting - 1
    /\ pending' = Tail(pending)
    /\ IF isPlaying
       THEN /\ events' = <<>>
            /\ UNCHANGED <<isPlaying, nextNoteTime, timerVars, observed,
                           lastStep>>
       ELSE /\ isPlaying' = TRUE
            /\ lastStep' = <<>>
            /\ nextNoteTime' = currentTime
            /\ LET kept == IF intervalId # 0
                           THEN timers \ {intervalId} ELSE timers
                   \* window.setInterval returns an id no active timer has
                   id == CHOOSE i \in 1..(Cardinality(kept) + 1) : i \notin kept
               IN /\ intervalId' = id
                  /\ timers' = kept \cup {id}
            /\ events' = <<EvPlay, EvChange>>
            /\ observed' = Snapshot(patterns, tempoBpm, TRUE)
    /\ threw' = FALSE
    /\ UNCHANGED flipped
    /\ lastOp' = Op("play:resumed")
    /\ UNCHANGED <<storeVars, current16th, audioVars, currentTime, reached,
                   triggers, scheduled, shareVars>>

\* stop() that leaves nextNoteTime where the session had advanced it
StopBodyKeepsTime ==
    /\ IF ~audioCtx
       THEN /\ events' = <<>>
            /\ UNCHANGED <<isPlaying, cursorVars, timerVars, observed,
                           pending, lastStep, reached>>
       ELSE /\ IF intervalId # 0
               THEN /\ timers' = timers \ {intervalId}
                    /\ intervalId' = 0
               ELSE UNCHANGED timerVars
            /\ isPlaying' = FALSE
            /\ current16th' = 0
            /\ UNCHANGED nextNoteTime
            /\ pending' = [i \in 1..Len(pending) |->
                              [pending[i] EXCEPT !.stopped = TRUE]]
            /\ lastStep' = <<>>
            /\ reached' = current16th
            /\ events' = <<EvStop, EvChange>>
            /\ observed' = Snapshot(patterns, tempoBpm, FALSE)
    /\ threw' = FALSE
    /\ UNCHANGED <<storeVars, audioVars, currentTime, awaiting, triggers,
                   scheduled, shareVars>>

\* stop() that pauses: the cursor stays where the session had advanced it
StopBodyKeepsCursor ==
    /\ IF ~audioCtx
       THEN /\ events' = <<>>
            /\ UNCHANGED <<isPlaying, cursorVars, timerVars, observed,
                           pending, lastStep, reached>>
       ELSE /\ IF intervalId # 0
               THEN /\ timers' = timers \ {intervalId}
                    /\ intervalId' = 0
               ELSE UNCHANGED timerVars
            /\ isPlaying' = FALSE
            /\ UNCHANGED current16th
            /\ nextNoteTime' = currentTime
            /\ pending' = [i \in 1..Len(pending) |->
                              [pending[i] EXCEPT !.stopped = TRUE]]
            /\ lastStep' = <<>>
            /\ reached' = current16th
            /\ events' = <<EvStop, EvChange>>
            /\ observed' = Snapshot(patterns, tempoBpm, FALSE)
    /\ threw' = FALSE
    /\ UNCHANGED <<storeVars, audioVars, currentTime, awaiting, triggers,
                   scheduled, shareVars>>

\* stop() that forgets its interval without clearing it
StopBodyLeavesTimer ==
    /\ IF ~audioCtx
       THEN /\ events' = <<>>
            /\ UNCHANGED <<isPlaying, cursorVars, timerVars, observed,
                           pending, lastStep, reached>>
       ELSE /\ intervalId' = 0
            /\ UNCHANGED timers
            /\ isPlaying' = FALSE
            /\ current16th' = 0
            /\ nextNoteTime' = currentTime
            /\ pending' = [i \in 1..Len(pending) |->
                              [pending[i] EXCEPT !.stopped = TRUE]]
            /\ lastStep' = <<>>
            /\ reached' = current16th
            /\ events' = <<EvStop, EvChange>>
            /\ observed' = Snapshot(patterns, tempoBpm, FALSE)
    /\ threw' = FALSE
    /\ UNCHANGED <<storeVars, audioVars, currentTime, awaiting, triggers,
                   scheduled, shareVars>>

\* stop() that cancels the triggers already queued
StopBodyCancels ==
    /\ IF ~audioCtx
       THEN /\ events' = <<>>
            /\ UNCHANGED <<isPlaying, cursorVars, timerVars, observed,
                           pending, lastStep, reached, triggers>>
       ELSE /\ IF intervalId # 0
               THEN /\ timers' = timers \ {intervalId}
                    /\ intervalId' = 0
               ELSE UNCHANGED timerVars
            /\ isPlaying' = FALSE
            /\ current16th' = 0
            /\ nextNoteTime' = currentTime
            /\ triggers' = {}
            /\ pending' = [i \in 1..Len(pending) |->
                              [pending[i] EXCEPT !.stopped = TRUE]]
            /\ lastStep' = <<>>
            /\ reached' = current16th
            /\ events' = <<EvStop, EvChange>>
            /\ observed' = Snapshot(patterns, tempoBpm, FALSE)
    /\ threw' = FALSE
    /\ UNCHANGED <<storeVars, audioVars, currentTime, awaiting, scheduled,
                   shareVars>>

\* stop()
StopBody ==
    /\ IF ~audioCtx
       THEN /\ events' = <<>>
            /\ UNCHANGED <<isPlaying, cursorVars, timerVars, observed,
                           pending, lastStep, reached>>
       ELSE /\ IF intervalId # 0
               THEN /\ timers' = timers \ {intervalId}
                    /\ intervalId' = 0
               ELSE UNCHANGED timerVars
            /\ isPlaying' = FALSE
            /\ current16th' = 0
            /\ nextNoteTime' = currentTime
            /\ pending' = [i \in 1..Len(pending) |->
                              [pending[i] EXCEPT !.stopped = TRUE]]
            /\ lastStep' = <<>>
            /\ reached' = current16th
            /\ events' = <<EvStop, EvChange>>
            /\ observed' = Snapshot(patterns, tempoBpm, FALSE)
    /\ threw' = FALSE
    /\ UNCHANGED <<storeVars, audioVars, currentTime, awaiting, triggers,
                   scheduled, shareVars>>

Stop ==
    /\ StopBody
    /\ UNCHANGED flipped
    /\ lastOp' = Op("stop")

\* toggle() that tests the audio context where it should test _isPlaying
ToggleOnContext ==
    /\ IF audioCtx THEN StopBody ELSE PlayBody(Undefined)
    /\ flipped' = ~flipped
    /\ lastOp' = [Op("toggle") EXCEPT !.flag = isPlaying]

Toggle ==
    /\ IF isPlaying THEN StopBody ELSE PlayBody(Undefined)
    /\ flipped' = ~flipped
    /\ lastOp' = [Op("toggle") EXCEPT !.flag = isPlaying]

\* the offline render of a voice completes: Drum.#buffer is set
RenderDone(drum) ==
    /\ drum \in rendering
    /\ rendering' = rendering \ {drum}
    /\ buffer' = [buffer EXCEPT ![drum] = TRUE]
    /\ events' = <<>>
    /\ threw' = FALSE
    /\ UNCHANGED flipped
    /\ lastOp' = [Op("render:done") EXCEPT !.drum = drum]
    /\ UNCHANGED <<storeVars, isPlaying, cursorVars, timerVars, audioCtx,
                   renders, created, currentTime, awaiting, pending, lastStep,
                   reached, triggers, scheduled, shareVars, observed>>

\* analyze(): reads the analyser's frequency data when there is one
Analyze ==
    /\ events' = <<>>
    /\ threw' = FALSE
    /\ UNCHANGED flipped
    /\ lastOp' = [Op("analyze") EXCEPT !.flag = created.analyser > 0]
    /\ UNCHANGED <<storeVars, transportVars, shareVars, observed>>

\* the hardware clock advances by n quanta, up to `last` quanta in all
ClockTo(n, last) ==
    /\ audioCtx
    /\ ~Lt(Quanta(last), Plus(currentTime, Quanta(n)))
    /\ currentTime' = Plus(currentTime, Quanta(n))
    /\ events' = <<>>
    /\ threw' = FALSE
    /\ UNCHANGED flipped
    /\ lastOp' = [Op("clock") EXCEPT !.num = Quanta(n)]
    /\ UNCHANGED <<storeVars, isPlaying, cursorVars, timerVars, audioVars,
                   awaiting, pending, lastStep, reached, triggers, scheduled,
                   shareVars, observed>>

ClockAdvance(n) == ClockTo(n, MaxQuanta)


-----------------------------------------------------------------------------
(* The lookahead scheduler.  A run carries the cursor, the triggers handed *)
(* to the hardware, the events dispatched and the steps scheduled so far.  *)

HitEvent(drum) ==
    CASE drum = "hihat" -> EvHat
      [] drum = "snare" -> EvSnare
      [] OTHER -> EvKick

\* Drum.play(time, volume): nothing while the buffer is unset
DrumPlay(trig, drum, time, volume) ==
    IF ~buffer[drum]
    THEN trig
    ELSE trig \cup {[drum |-> drum, time |-> time, gain |-> volume]}

\* playHiHat / playSnare / playKick that also plays a voice at volume 0
PlayVoiceSilentToo(run, drum, time, volume) ==
    IF ~audioCtx
    THEN run
    ELSE [run EXCEPT
              !.trig = DrumPlay(run.trig, drum, time, volume),
              !.hits = Append(run.hits, [drum |-> drum, volume |-> volume]),
              !.at = Append(run.at, time),
              !.ev = run.ev \o <<HitEvent(drum), EvChange>>]

\* playHiHat / playSnare / playKick (time, volume)
PlayVoice(run, drum, time, volume) ==
    IF ~audioCtx \/ ~Truthy(volume)
    THEN run
    ELSE [run EXCEPT
              !.trig = DrumPlay(run.trig, drum, time, volume),
              !.hits = Append(run.hits, [drum |-> drum, volume |-> volume]),
              !.at = Append(run.at, time),
              !.ev = run.ev \o <<HitEvent(drum), EvChange>>]

\* scheduleStep(step, time) that plays the kick first and the hi-hat last
scheduleStepKickFirst(run, step, time) ==
    LET Volume(drum) == Fin(patterns[drum][step + 1], 100)
        r1 == PlayVoice([run EXCEPT !.hits = <<>>, !.at = <<>>], "kicks",
                        time, Volume("kicks"))
        r2 == PlayVoice(r1, "snare", time, Volume("snare"))
        r3 == PlayVoice(r2, "hihat", time, Volume("hihat"))
    IN [r3 EXCEPT !.steps = r3.steps \o
                        <<[step |-> step, time |-> time, hits |-> r3.hits,
                           at |-> r3.at]>>]

\* scheduleStep(step, time)
scheduleStep(run, step, time) ==
    LET Volume(drum) == Fin(patterns[drum][step + 1], 100)
        r1 == PlayVoice([run EXCEPT !.hits = <<>>, !.at = <<>>], "hihat",
                        time, Volume("hihat"))
        r2 == PlayVoice(r1, "snare", time, Volume("snare"))
        r3 == PlayVoice(r2, "kicks", time, Volume("kicks"))
    IN [r3 EXCEPT !.steps = r3.steps \o
                        <<[step |-> step, time |-> time, hits |-> r3.hits,
                           at |-> r3.at]>>]

\* advanceNote() that catches up with the hardware clock when it is late
advanceNoteFromClock(run) ==
    [run EXCEPT
        !.time = Plus(IF Lt(run.time, currentTime)
                      THEN currentTime ELSE run.time,
                      secondsPer16th(tempoBpm)),
        !.step = (run.step + 1) % StepCount]

\* advanceNote() that moves the time but not the step
advanceNoteSameStep(run) ==
    [run EXCEPT !.time = Plus(run.time, secondsPer16th(tempoBpm))]

\* advanceNote()
advanceNote(run) ==
    [run EXCEPT
        !.time = Plus(run.time, secondsPer16th(tempoBpm)),
        !.step = (run.step + 1) % StepCount]

\* the while loop of scheduler() with <= where the code has <
RECURSIVE schedulerLoopInclusive(_)
schedulerLoopInclusive(run) ==
    IF ~Lt(Plus(currentTime, scheduleAheadS), run.time) /\ ~IsNaN(run.time)
    THEN schedulerLoopInclusive(
             advanceNote(scheduleStep(run, run.step, run.time)))
    ELSE run

\* the while loop of scheduler()
RECURSIVE schedulerLoop(_)
schedulerLoop(run) ==
    IF Lt(run.time, Plus(currentTime, scheduleAheadS))
    THEN schedulerLoop(advanceNote(scheduleStep(run, run.step, run.time)))
    ELSE run

\* one polling callback of timer id
Scheduler(id) ==
    /\ id \in timers
    /\ \E run \in {IF ~audioCtx
                    THEN [time |-> nextNoteTime, step |-> current16th,
                          trig |-> triggers, ev |-> <<>>, hits |-> <<>>, at |-> <<>>,
                          steps |-> <<>>]
                    ELSE schedulerLoop(
                            [time |-> nextNoteTime, step |-> current16th,
                             trig |-> triggers, ev |-> <<>>, hits |-> <<>>, at |-> <<>>,
                             steps |-> <<>>])} :
          /\ nextNoteTime' = run.time
          /\ current16th' = run.step
          /\ triggers' = run.trig
          /\ events' = run.ev
          /\ scheduled' = run.steps
          /\ lastStep' = IF run.steps # <<>>
                         THEN <<run.steps[Len(run.steps)]>>
                         ELSE lastStep
          /\ observed' = IF run.ev # <<>>
                         THEN Snapshot(patterns, tempoBpm, isPlaying)
                         ELSE observed
    /\ threw' = FALSE
    /\ UNCHANGED flipped
    /\ lastOp' = Op("scheduler")
    /\ UNCHANGED <<storeVars, isPlaying, timerVars, audioVars, currentTime,
                   awaiting, pending, reached, shareVars>>


-----------------------------------------------------------------------------
(* Inputs.                                                                 *)

\* the values parseFloat(?bpm=) hands the constructor: 120, 90.5, 10, 1000
\* and NaN (a ?bpm= that is no number)
InitBpms == {Num(120), Fin(181, 2), Num(10), Num(1000), NaN}

\* the arguments of setTempo and play
BpmInputs ==
    {Undefined, NaN, Num(0), Num(-5), Fin(1, 2), Num(29), Num(30),
     Fin(241, 2), Num(300), Fin(601, 2), Num(301), PosInf, NegInf}

\* the cells the pattern calls edit, and the volume deltas
EditCells == {<<"hihat", 2>>, <<"kicks", 15>>}
AdjustCells == {<<"hihat", 2>>}
Deltas == {-101, -50, 50, 101}

DefaultToken == serialize(toDrumPatterns(defaultPatterns))

\* the default pattern with the hi-hat's step 2 at 255
LoudToken == b64UrlEncode([defaultPatterns EXCEPT ![3] = 255])

\* the default pattern with the hi-hat's step 2 at 63: "_" is its fourth
\* character
SoftToken == b64UrlEncode([defaultPatterns EXCEPT ![3] = 63])

\* the same in the standard base64 alphabet: "/" where base64url has "_"
StandardToken == Btoa([defaultPatterns EXCEPT ![3] = 63])

\* the default pattern's token with four blanks in it
BlankToken ==
    SubSeq(DefaultToken, 1, 4) \o <<" ", " ">> \o
    SubSeq(DefaultToken, 5, 64) \o <<"\n", "\t">>

NotBase64Token == <<"n", "o", "t", "-", "b", "a", "s", "e", "6", "4", "!", "!">>

\* tokens that decode to 0, 3, 45 and 51 bytes, and one of 5 characters
FixedTokens ==
    {<<>>, Repeat("A", 4), Repeat("A", 5), Repeat("A", 60), Repeat("_", 68),
     NotBase64Token, LoudToken, SoftToken, StandardToken, BlankToken}

-----------------------------------------------------------------------------
(* Specifications.                                                         *)

Init == Constructed(Num(120))

Next ==
    \/ Play(Undefined)
    \/ PlayResumed
    \/ Stop
    \/ Toggle
    \/ \E drum \in Instrument : RenderDone(drum)
    \/ \E n \in {1, 4} : ClockAdvance(n)
    \/ \E id \in timers : Scheduler(id)

Spec == Init /\ [][Next]_vars

\* the tempo under every call that reaches setTempo
InitTempo == \E bpm \in InitBpms : Constructed(bpm)

NextTempo ==
    \/ \E bpm \in BpmInputs : SetTempo(bpm)
    \/ \E bpm \in BpmInputs : Play(bpm)
    \/ PlayResumed
    \/ Stop
    \/ Toggle
    \/ Reset

SpecTempo == InitTempo /\ [][NextTempo]_vars

\* the pattern store and the share token
InitPattern == Constructed(Num(120))

NextPattern ==
    \/ \E cell \in EditCells, state \in BOOLEAN :
           ToggleNote(cell[1], cell[2], state)
    \/ \E cell \in AdjustCells, delta \in Deltas :
           AdjustNoteVolume(cell[1], cell[2], delta)
    \/ Reset
    \/ Serialize
    \/ \E value \in FixedTokens \cup {token} : Deserialize(value)

SpecPattern == InitPattern /\ [][NextPattern]_vars

\* note edits while the transport runs
InitEdit == Constructed(Num(120))

NextEdit ==
    \/ \E cell \in EditCells, state \in BOOLEAN :
           ToggleNote(cell[1], cell[2], state)
    \/ \E cell \in AdjustCells, delta \in Deltas :
           AdjustNoteVolume(cell[1], cell[2], delta)
    \/ SetTempo(Num(90))
    \/ Play(Undefined)
    \/ PlayResumed
    \/ Stop
    \/ Toggle

SpecEdit == InitEdit /\ [][NextEdit]_vars

\* the transport alone: sessions started, stopped and restarted
InitSession == Constructed(Num(120))

NextSession ==
    \/ Play(Undefined)
    \/ PlayResumed
    \/ Stop
    \/ Toggle
    \/ \E n \in {1, 4} : ClockAdvance(n)
    \/ \E id \in timers : Scheduler(id)

SpecSession == InitSession /\ [][NextSession]_vars

\* the play/stop button alone; the resume play() awaits always completes
InitToggle == Constructed(Num(120))

NextToggle ==
    \/ Toggle
    \/ PlayResumed
    \/ Stop
    \/ \E n \in {1, 4} : ClockAdvance(n)
    \/ \E id \in timers : Scheduler(id)

SpecToggle == InitToggle /\ [][NextToggle]_vars /\ WF_vars(PlayResumed)

\* edits, a restored token and a tempo change, then reset(), while the
\* transport runs
ResetBpms == {Num(120), NaN}
ResetCell == <<"snare", 1>>

InitReset == \E bpm \in ResetBpms : Constructed(bpm)

NextReset ==
    \/ \E state \in BOOLEAN : ToggleNote(ResetCell[1], ResetCell[2], state)
    \/ AdjustNoteVolume(ResetCell[1], ResetCell[2], 50)
    \/ Deserialize(LoudToken)
    \/ SetTempo(Num(90))
    \/ Reset
    \/ Play(Undefined)
    \/ PlayResumed
    \/ ClockAdvance(2)
    \/ \E id \in timers : Scheduler(id)

SpecReset == InitReset /\ [][NextReset]_vars

\* edits and transport calls while the rendered hi-hat queues triggers
QueueCell == <<"hihat", 0>>

InitQueue == Constructed(Num(120))

NextQueue ==
    \/ \E state \in BOOLEAN : ToggleNote(QueueCell[1], QueueCell[2], state)
    \/ AdjustNoteVolume(QueueCell[1], QueueCell[2], 50)
    \/ Deserialize(LoudToken)
    \/ SetTempo(Num(90))
    \/ Reset
    \/ Toggle
    \/ PlayResumed
    \/ Stop
    \/ RenderDone(QueueCell[1])
    \/ \E id \in timers : Scheduler(id)

SpecQueue == InitQueue /\ [][NextQueue]_vars

\* the play/pause button alone: toggle() calls and their resumes
InitTwice == Constructed(Num(120))

NextTwice ==
    \/ Toggle
    \/ PlayResumed
    \/ \E n \in {1, 4} : ClockAdvance(n)
    \/ \E id \in timers : Scheduler(id)

SpecTwice == InitTwice /\ [][NextTwice]_vars

\* transport and analyser calls around the creation of the audio graph
InitRender == Constructed(Num(120))

NextRender ==
    \/ Play(Undefined)
    \/ PlayResumed
    \/ Stop
    \/ Toggle
    \/ Analyze
    \/ \E d \in Instrument : RenderDone(d)
    \/ ClockAdvance(2)
    \/ \E id \in timers : Scheduler(id)

SpecRender == InitRender /\ [][NextRender]_vars

\* a long session at a fast tempo: the cursor wraps, callbacks run late
GrooveBpms == {Num(300), Num(120)}
GrooveTicks == {1, 8}

InitGroove == \E bpm \in GrooveBpms : Constructed(bpm)

NextGroove ==
    \/ Play(Undefined)
    \/ PlayResumed
    \/ \E n \in GrooveTicks : ClockTo(n, GrooveQuanta)
    \/ \E id \in timers : Scheduler(id)

SpecGroove == InitGroove /\ [][NextGroove]_vars

\* sessions long enough for the cursor to wrap, stopped and restarted
CursorBpm == Num(300)
CursorTick == 10

InitCursor == Constructed(CursorBpm)

NextCursor ==
    \/ Play(Undefined)
    \/ PlayResumed
    \/ Stop
    \/ Toggle
    \/ ClockTo(CursorTick, GrooveQuanta)
    \/ \E id \in timers : Scheduler(id)

SpecCursor == InitCursor /\ [][NextCursor]_vars

-----------------------------------------------------------------------------
(* Properties.                                                             *)

Range(seq) == {seq[i] : i \in 1..Len(seq)}

TempoInRange(t) == t.k = "fin" /\ t.d = 1 /\ 30 <= t.n /\ t.n <= 300

Velocities(p) ==
    \A drum \in Instrument :
        /\ Len(p[drum]) = 16
        /\ \A i \in 1..Len(p[drum]) : p[drum][i] \in 0..100

\* the cells of p and q other than (drum, note) are equal
SameElsewhere(p, q, drum, note) ==
    \A d \in Instrument :
        /\ Len(p[d]) = Len(q[d])
        /\ \A i \in 1..Len(p[d]) :
               (d # drum \/ i # note + 1) => p[d][i] = q[d][i]

Base64UrlChars == (Base64Chars \ {"+", "/"}) \cup {"-", "_"}

DecodesTo48(value) ==
    LET dec == b64UrlDecode(value)
    IN dec.ok /\ Len(dec.bytes) = 48

\* C1: after setTempo(bpm) the stored tempo is an integer in [30,300]: 30
\* for an input below 30, 300 for an input above 300, the floor of an
\* in-range input, and the tempo before the call for a NaN, undefined or
\* zero input.
SetTempoClamps ==
    [][lastOp'.op = "setTempo" =>
           LET bpm == lastOp'.num
           IN /\ TempoInRange(tempoBpm')
              /\ (Truthy(bpm) /\ Lt(bpm, Num(30))) => tempoBpm' = Num(30)
              /\ Lt(Num(300), bpm) => tempoBpm' = Num(300)
              /\ (~Lt(bpm, Num(30)) /\ ~Lt(Num(300), bpm) /\ Truthy(bpm))
                     => tempoBpm' = MathFloor(bpm)
              /\ ~Truthy(bpm) => tempoBpm' = tempoBpm]_vars

\* C2: in every reachable state, from the constructor on, the stored tempo
\* is an integer in [30,300].
TempoAlwaysValid == TempoInRange(tempoBpm)

\* C3: each of the three tracks always has exactly 16 entries, every one
\* of them in [0,100].
TracksWellFormed == Velocities(patterns)

\* C4: adjustNoteVolume(drum, note, delta) on a velocity v in [0,100] stores
\* min(100, max(0, v + delta)), which is in [0,100], and changes no other
\* cell.
AdjustSaturates ==
    [][(/\ lastOp'.op = "adjustNoteVolume"
        /\ patterns[lastOp'.drum][lastOp'.note + 1] \in 0..100) =>
           LET v == patterns[lastOp'.drum][lastOp'.note + 1]
               w == patterns'[lastOp'.drum][lastOp'.note + 1]
               sum == v + lastOp'.num.n
           IN /\ w = (IF sum > 100 THEN 100 ELSE IF sum < 0 THEN 0 ELSE sum)
              /\ w \in 0..100
              /\ SameElsewhere(patterns, patterns', lastOp'.drum,
                               lastOp'.note)]_vars

\* an adjustment by +101 that saturated at 100
AdjustSaturated ==
    /\ lastOp.op = "adjustNoteVolume"
    /\ lastOp.num = Num(101)
    /\ patterns[lastOp.drum][lastOp.note + 1] = 100

\* C5: deserialize of the token serialize() returned for a pattern P of
\* velocities in [0,100] leaves the drummer holding P, whatever pattern it
\* held before.
RoundTrip ==
    (/\ lastOp.op = "deserialize"
     /\ token # <<>>
     /\ lastOp.value = token
     /\ Velocities(tokenPatterns)) => patterns = tokenPatterns

\* a token deserialized into a drummer whose observer last saw another
\* pattern
RoundTripped ==
    /\ lastOp.op = "deserialize"
    /\ token # <<>>
    /\ lastOp.value = token
    /\ Velocities(tokenPatterns)
    /\ patterns = tokenPatterns
    /\ observed.patterns # tokenPatterns

\* C6 as stated: deserialize replaces the pattern only if the token decodes
\* to exactly 48 bytes, and leaves it as it was for the empty token, for a
\* token with a character outside the base64url alphabet, and for a token
\* decoding to another length.
DeserializeIgnoresNonUrlChars ==
    [][lastOp'.op = "deserialize" =>
           LET value == lastOp'.value
           IN /\ patterns' # patterns => DecodesTo48(value)
              /\ (\/ value = <<>>
                  \/ \E i \in 1..Len(value) : value[i] \notin Base64UrlChars
                  \/ ~DecodesTo48(value)) => patterns' = patterns]_vars

\* C6 amended: deserialize replaces the pattern only if the token decodes
\* to exactly 48 bytes, and leaves it as it was for the empty token, for a
\* token with a character that is neither in the base64url nor in the
\* standard base64 alphabet nor ASCII whitespace, and for a token decoding
\* to another length.
DeserializeIgnoresMalformed ==
    [][lastOp'.op = "deserialize" =>
           LET value == lastOp'.value
           IN /\ patterns' # patterns => DecodesTo48(value)
              /\ (\/ value = <<>>
                  \/ \E i \in 1..Len(value) :
                         value[i] \notin
                             Base64UrlChars \cup Base64Chars \cup AsciiWhitespace
                  \/ ~DecodesTo48(value)) => patterns' = patterns]_vars

\* a token of 68 characters (51 bytes) was ignored
LongTokenIgnored ==
    /\ lastOp.op = "deserialize"
    /\ Len(lastOp.value) = 68
    /\ ~threw
    /\ patterns = observed.patterns

\* C7: deserialize never raises an error.
DeserializeNeverThrows == lastOp.op = "deserialize" => ~threw

\* C8: toggleNote(drum, note, state) stores 80 when state is true and 0
\* when it is false, changes no other cell, nor the tempo, nor the playback
\* state, and a second call with the same arguments changes nothing.
ToggleNoteSets ==
    [][lastOp'.op = "toggleNote" =>
           /\ patterns'[lastOp'.drum][lastOp'.note + 1] =
                  (IF lastOp'.flag THEN 80 ELSE 0)
           /\ SameElsewhere(patterns, patterns', lastOp'.drum, lastOp'.note)
           /\ tempoBpm' = tempoBpm
           /\ isPlaying' = isPlaying
           /\ lastOp = lastOp' => patterns' = patterns]_vars

\* a silent step switched on while the machine plays
ToggledOnWhilePlaying ==
    /\ lastOp.op = "toggleNote"
    /\ lastOp.drum = "kicks"
    /\ lastOp.note = 15
    /\ lastOp.flag
    /\ patterns.kicks[16] = 80
    /\ isPlaying

\* C9: every call that mutates tempo, pattern or transport state dispatches
\* the change event before it returns, so that an observer re-reading on
\* each change event holds the current pattern, tempo and playback state.
ObserverNeverStale == observed = Snapshot(patterns, tempoBpm, isPlaying)

\* C10: no scheduler run plays a voice, or emits its hit event, while that
\* voice's buffer is unset.
NoHitBeforeRendered ==
    \A drum \in Instrument : HitEvent(drum) \in Range(events) => buffer[drum]


\* C11: once a stop() has completed, the machine stays Stopped and no step
\* is scheduled until play() or toggle() is invoked again afterwards: while
\* every suspended play() predates the last stop(), a step that is not a
\* new play() or toggle() call neither starts playback nor schedules.
StopPreventsScheduling ==
    [][(/\ ~isPlaying
        /\ \A i \in 1..Len(pending) : pending[i].stopped
        /\ lastOp'.op \notin {"play", "toggle"})
       => (~isPlaying' /\ timers' = {} /\ lastOp'.op # "scheduler")]_vars

\* C12: with an audio context, stop() cancels the polling timer, leaves the
\* machine Stopped with current16th 0 and nextNoteTime at the hardware
\* clock, dispatches stop then change, and keeps tempo and pattern.
StopResets ==
    [][(lastOp'.op = "stop" /\ audioCtx)
       => /\ intervalId' = 0
          /\ timers' = {}
          /\ ~isPlaying'
          /\ current16th' = 0
          /\ nextNoteTime' = currentTime'
          /\ currentTime' = currentTime
          /\ events' = <<EvStop, EvChange>>
          /\ tempoBpm' = tempoBpm
          /\ patterns' = patterns]_vars

\* a stop() has ended a session that had scheduled beyond step 0, at a
\* clock past the session's start
StoppedMidSession ==
    /\ lastOp.op = "stop"
    /\ events = <<EvStop, EvChange>>
    /\ scheduled # <<>>
    /\ scheduled[Len(scheduled)].step >= 1
    /\ Lt(Num(0), currentTime)
    /\ nextNoteTime = currentTime
    /\ current16th = 0
    /\ timers = {}

\* C13: play() invoked while the machine is Playing is a no-op apart from
\* tempo: neither the call nor its continuation changes nextNoteTime or
\* current16th, replaces or adds a timer, or dispatches play; a non-zero
\* tempo argument is stored clamped, with tempo-change then change.
PlayWhilePlayingIsNoOp ==
    [][/\ (lastOp'.op = "play" /\ isPlaying)
          => /\ UNCHANGED <<nextNoteTime, current16th, intervalId, timers>>
             /\ isPlaying'
             /\ EvPlay \notin Range(events')
             /\ IF Truthy(lastOp'.num)
                THEN /\ tempoBpm' = ClampBpm(MathFloor(lastOp'.num))
                     /\ TempoInRange(tempoBpm')
                     /\ events' = <<EvTempoChange, EvChange>>
                ELSE /\ tempoBpm' = tempoBpm
                     /\ events' = <<>>
       /\ (lastOp'.op = "play:resumed" /\ Head(pending).playing)
          => /\ UNCHANGED <<nextNoteTime, current16th, intervalId, timers,
                            tempoBpm>>
             /\ EvPlay \notin Range(events')]_vars

\* the same, for the calls no stop() has overtaken
PlayWhilePlayingUnlessStopped ==
    [][/\ (lastOp'.op = "play" /\ isPlaying)
          => /\ UNCHANGED <<nextNoteTime, current16th, intervalId, timers>>
             /\ isPlaying'
             /\ EvPlay \notin Range(events')
             /\ IF Truthy(lastOp'.num)
                THEN /\ tempoBpm' = ClampBpm(MathFloor(lastOp'.num))
                     /\ TempoInRange(tempoBpm')
                     /\ events' = <<EvTempoChange, EvChange>>
                ELSE /\ tempoBpm' = tempoBpm
                     /\ events' = <<>>
       /\ (/\ lastOp'.op = "play:resumed"
           /\ Head(pending).playing
           /\ ~Head(pending).stopped)
          => /\ UNCHANGED <<nextNoteTime, current16th, intervalId, timers,
                            tempoBpm>>
             /\ EvPlay \notin Range(events')]_vars

\* C14: the first step a playing session schedules is step 0, whatever
\* step index the session before it had reached when stop() ended it.
RestartsAtStepZero ==
    [][(lastOp'.op = "scheduler" /\ lastStep = <<>> /\ scheduled' # <<>>)
       => scheduled'[1].step = 0]_vars

\* a session begun after a stop() that found the cursor past step 0 has
\* scheduled its first steps
RestartedFromZero ==
    /\ lastOp.op = "scheduler"
    /\ isPlaying
    /\ reached >= 1
    /\ scheduled # <<>>
    /\ scheduled[1].step = 0
    /\ lastStep = <<scheduled[Len(scheduled)]>>

\* 60 / T / 4 seconds, for a whole tempo T
SixteenthAt(tempo) == Fin(60, 4 * tempo.n)

\* the steps a callback schedules, after the session's last step before it
StepsThrough(prev, run) == prev \o run

\* C15: within a playing session at a fixed tempo T, the times of
\* consecutive scheduled steps differ by exactly 60/T/4 seconds, inside a
\* batch and from one polling callback to the next, however late it runs.
CadenceExact ==
    [][lastOp'.op = "scheduler"
       => LET steps == StepsThrough(lastStep, scheduled')
          IN \A i \in 1..(Len(steps) - 1) :
                 steps[i + 1].time =
                     Plus(steps[i].time, SixteenthAt(tempoBpm))]_vars

\* a late callback has scheduled a batch that continues earlier steps
LateBatchScheduled ==
    /\ lastOp.op = "scheduler"
    /\ Len(scheduled) >= 3
    /\ scheduled[1].step >= 1
    /\ Lt(Plus(scheduled[1].time, scheduleAheadS), currentTime)

\* C16: within a playing session the scheduled step indices run 0, 1, ...,
\* 15, 0, 1, ...: the first is 0 and each next one is (previous + 1) mod 16,
\* inside a batch and from one polling callback to the next.
NeverLosesABeat ==
    [][lastOp'.op = "scheduler"
       => LET steps == StepsThrough(lastStep, scheduled')
          IN /\ (lastStep = <<>> /\ steps # <<>>) => steps[1].step = 0
             /\ \A i \in 1..(Len(steps) - 1) :
                    steps[i + 1].step = (steps[i].step + 1) % 16]_vars

\* a late callback has scheduled a batch that wraps from step 15 to step 0
WrappedInBatch ==
    /\ lastOp.op = "scheduler"
    /\ Len(scheduled) >= 3
    /\ \E i \in 1..(Len(scheduled) - 1) :
           scheduled[i].step = 15 /\ scheduled[i + 1].step = 0

\* a voice played at velocity 80: volume 0.8
Hit(drum) == [drum |-> drum, volume |-> Fin(8, 10)]

\* C17 as stated: with the default pattern, step 0 plays exactly HiHat
\* and Kick at gain 0.8 and step 4 plays only Snare.
DefaultBeatSnareOnly ==
    [][(lastOp'.op = "scheduler" /\ patterns = toDrumPatterns(defaultPatterns))
       => \A i \in 1..Len(scheduled') :
              /\ scheduled'[i].step = 0
                 => scheduled'[i].hits = <<Hit("hihat"), Hit("kicks")>>
              /\ scheduled'[i].step = 4
                 => scheduled'[i].hits = <<Hit("snare")>>]_vars

\* C17: with the default pattern, step 0 plays exactly HiHat and Kick and
\* step 4 plays exactly HiHat and Snare, each at gain 0.8 (velocity 80).
DefaultBeat ==
    [][(lastOp'.op = "scheduler" /\ patterns = toDrumPatterns(defaultPatterns))
       => \A i \in 1..Len(scheduled') :
              /\ scheduled'[i].step = 0
                 => scheduled'[i].hits = <<Hit("hihat"), Hit("kicks")>>
              /\ scheduled'[i].step = 4
                 => scheduled'[i].hits = <<Hit("hihat"), Hit("snare")>>]_vars

\* one callback has scheduled steps 0 to 4 of the default pattern
DefaultBeatScheduled ==
    /\ lastOp.op = "scheduler"
    /\ patterns = toDrumPatterns(defaultPatterns)
    /\ Len(scheduled) >= 5
    /\ scheduled[1].step = 0
    /\ scheduled[5].step = 4
    /\ scheduled[5].hits # <<>>

\* the pattern of a freshly constructed Drummer
FreshPattern ==
    [hihat |-> <<80, 0, 80, 0, 80, 0, 80, 80, 80, 80, 80, 0, 80, 0, 80, 0>>,
     snare |-> <<0, 0, 0, 0, 80, 0, 0, 0, 0, 0, 0, 0, 80, 0, 0, 0>>,
     kicks |-> <<80, 0, 0, 0, 0, 0, 0, 0, 0, 0, 80, 0, 0, 0, 0, 0>>]

\* C18: reset() leaves tempo 120 and the pattern of a fresh Drummer,
\* whatever was edited, restored or set before, and leaves the playback
\* state, current16th and nextNoteTime as they were.
ResetRestoresDefaults ==
    [][lastOp'.op = "reset"
       => /\ tempoBpm' = Num(120)
          /\ patterns' = FreshPattern
          /\ UNCHANGED <<isPlaying, current16th, nextNoteTime>>]_vars

\* reset() ran while playing, after step 1 was scheduled with an edited
\* snare cell at tempo 90 (the next step is 1/6 s after it)
ResetWhilePlaying ==
    /\ lastOp.op = "reset"
    /\ isPlaying
    /\ current16th = 2
    /\ lastStep # <<>>
    /\ lastStep[1].step = 1
    /\ lastStep[1].hits # <<>>
    /\ nextNoteTime = Plus(lastStep[1].time, Fin(1, 6))
    /\ tempoBpm = Num(120)
    /\ patterns = FreshPattern

\* C19: toggle() in state Playing performs stop() and ends Stopped;
\* toggle() in state Stopped performs play(), and the machine is Playing
\* once the resume that play() awaits has completed.
ToggleFlips ==
    /\ [][(lastOp'.op = "toggle" /\ isPlaying)
          => /\ ~isPlaying'
             /\ current16th' = 0
             /\ timers' = {}
             /\ awaiting' = awaiting
             /\ events' = <<EvStop, EvChange>>]_vars
    /\ [][(lastOp'.op = "toggle" /\ ~isPlaying)
          => /\ ~isPlaying'
             /\ audioCtx'
             /\ awaiting' = awaiting + 1
             /\ events' = <<>>]_vars
    /\ (lastOp.op = "toggle" /\ ~lastOp.flag) ~> isPlaying

\* a session started by toggle() after an earlier session was stopped
ToggledBackOn ==
    /\ lastOp.op = "play:resumed"
    /\ isPlaying
    /\ events = <<EvPlay, EvChange>>
    /\ reached >= 1

\* the velocity that byte k (from 0) of a 48-byte payload stands for
CellOfByte(p, k) ==
    CASE k < 16 -> p.hihat[k + 1]
      [] k < 32 -> p.snare[k - 16 + 1]
      [] OTHER -> p.kicks[k - 32 + 1]

\* C20: the token serialize() returns carries exactly 48 bytes, HiHat
\* steps 0-15, then Snare, then Kick, byte k being the velocity of its
\* cell, and serialize() changes no state; deserialize maps the bytes of
\* a 48-byte token to the cells the same way.
TokenLayout ==
    [][/\ lastOp'.op = "serialize"
          => /\ \E dec \in {b64UrlDecode(token')} :
                    /\ dec.ok
                    /\ Len(dec.bytes) = 48
                    /\ \A k \in 0..47 :
                           dec.bytes[k + 1] = CellOfByte(patterns, k)
             /\ UNCHANGED <<patterns, tempoBpm, isPlaying, current16th,
                            nextNoteTime, observed>>
             /\ events' = <<>>
       /\ lastOp'.op = "deserialize"
          => \E dec \in {b64UrlDecode(lastOp'.value)} :
                 (dec.ok /\ Len(dec.bytes) = 48)
                 => /\ \A d \in Instrument : Len(patterns'[d]) = 16
                    /\ \A k \in 0..47 :
                           CellOfByte(patterns', k) = dec.bytes[k + 1]]_vars

\* serialize() ran on a pattern whose hi-hat and kick tracks were edited
EditedPatternSerialized ==
    /\ lastOp.op = "serialize"
    /\ patterns.hihat[3] # 80
    /\ patterns.kicks[16] = 80
    /\ patterns.snare[16] = 0
    /\ b64UrlDecode(token).bytes[48] = 80

\* C21: no polling timer is started and no step is scheduled by a play()
\* call before the resume it awaits has completed: the call itself (made
\* directly or by toggle()) leaves the timers, the cursor and the queued
\* triggers alone, a timer is only ever added by the continuation of a
\* suspended play(), and only an installed timer's callback schedules.
ResumeBeforeScheduling ==
    [][/\ (lastOp'.op = "play" \/ (lastOp'.op = "toggle" /\ ~isPlaying))
          => /\ awaiting' = awaiting + 1
             /\ UNCHANGED <<timers, intervalId, isPlaying, current16th,
                            nextNoteTime, triggers, scheduled>>
       /\ (timers' \ timers # {})
          => /\ lastOp'.op = "play:resumed"
             /\ awaiting > 0
             /\ awaiting' = awaiting - 1
       /\ (scheduled' # scheduled \/ triggers' # triggers)
          => /\ lastOp'.op = "scheduler"
             /\ intervalId # 0
             /\ intervalId \in timers]_vars

\* a session's timer has scheduled steps while a later play() is still
\* suspended at its resume
ScheduledWhileSuspended ==
    /\ lastOp.op = "scheduler"
    /\ scheduled # <<>>
    /\ awaiting >= 1
    /\ isPlaying

\* clockNow + scheduleAhead (0.1 s)
Horizon == Plus(currentTime, Fin(1, 10))

TempoAppliesLive ==
    [][/\ lastOp'.op = "setTempo"
          => UNCHANGED <<current16th, nextNoteTime, intervalId, timers,
                         isPlaying, triggers, scheduled, lastStep>>
       /\ (lastOp'.op = "scheduler" /\ scheduled' # <<>>
           /\ TempoInRange(tempoBpm))
          => /\ scheduled'[1].time = nextNoteTime
             /\ \A i \in 1..(Len(scheduled') - 1) :
                    scheduled'[i + 1].time =
                        Plus(scheduled'[i].time, SixteenthAt(tempoBpm))
             /\ nextNoteTime' =
                    Plus(scheduled'[Len(scheduled')].time,
                         SixteenthAt(tempoBpm))]_vars

\* step 1 went out 1/8 s after the session's start (tempo 120 when step 0
\* was scheduled) and the step after it is due 1/6 s later (tempo 90 now)
TempoChangedMidGroove ==
    /\ lastOp.op = "scheduler"
    /\ isPlaying
    /\ tempoBpm = Num(90)
    /\ Len(scheduled) = 1
    /\ scheduled[1].step = 1
    /\ \E k \in 0..MaxQuanta : scheduled[1].time = Plus(Quanta(k), Fin(1, 8))
    /\ nextNoteTime = Plus(scheduled[1].time, Fin(1, 6))

\* the events of the voices played for the given steps: per voice its hit
\* event, then change
RECURSIVE EventsOf(_)
EventsOf(steps) ==
    IF steps = <<>>
    THEN <<>>
    ELSE LET hits == Head(steps).hits
         IN [j \in 1..(2 * Len(hits)) |->
                 IF j % 2 = 1 THEN HitEvent(hits[(j + 1) \div 2].drum)
                 ELSE EvChange] \o EventsOf(Tail(steps))

\* the trigger of a cell of velocity v at a time
TriggerOf(drum, time, v) == [drum |-> drum, time |-> time, gain |-> Fin(v, 100)]

\* C24: when a step is scheduled, a voice is triggered (its buffer played
\* at the step's time with gain velocity/100, its hit event and a change
\* event dispatched) if and only if its velocity at that step is non-zero.
TriggersIffVelocity ==
    [][lastOp'.op = "scheduler"
       => /\ \A i \in 1..Len(scheduled') : \A d \in Instrument :
                 LET s == scheduled'[i]
                     v == patterns[d][s.step + 1]
                     played == \E h \in Range(s.hits) : h.drum = d
                 IN IF v # 0
                    THEN /\ TriggerOf(d, s.time, v) \in triggers'
                         /\ played
                    ELSE /\ \A g \in triggers' \ triggers :
                                ~(g.drum = d /\ g.time = s.time)
                         /\ ~played
          /\ events' = EventsOf(scheduled')]_vars

\* the same, for the voices whose buffer is rendered
TriggersIffVelocityOnceRendered ==
    [][lastOp'.op = "scheduler"
       => /\ \A i \in 1..Len(scheduled') : \A d \in Instrument :
                 LET s == scheduled'[i]
                     v == patterns[d][s.step + 1]
                     played == \E h \in Range(s.hits) : h.drum = d
                 IN IF v # 0
                    THEN /\ buffer[d] => TriggerOf(d, s.time, v) \in triggers'
                         /\ played
                    ELSE /\ \A g \in triggers' \ triggers :
                                ~(g.drum = d /\ g.time = s.time)
                         /\ ~played
          /\ events' = EventsOf(scheduled')]_vars

\* the place of a voice in the order HiHat, Snare, Kick
VoiceRank(drum) ==
    CASE drum = "hihat" -> 1
      [] drum = "snare" -> 2
      [] OTHER -> 3

\* C25: the voices of a scheduled step are triggered in the order HiHat,
\* Snare, Kick, all with the step's time (nextNoteTime before it is
\* advanced), the change event of each hit being dispatched to the
\* observers before the next voice is triggered.
VoicesInOrderAtOneTime ==
    [][lastOp'.op = "scheduler"
       => /\ \A i \in 1..Len(scheduled') :
                 LET s == scheduled'[i]
                 IN /\ Len(s.at) = Len(s.hits)
                    /\ \A j \in 1..Len(s.hits) : s.at[j] = s.time
                    /\ \A j, k \in 1..Len(s.hits) :
                           j < k => VoiceRank(s.hits[j].drum)
                                        < VoiceRank(s.hits[k].drum)
          /\ scheduled' # <<>> => scheduled'[1].time = nextNoteTime
          /\ \A g \in triggers' \ triggers :
                 \E i \in 1..Len(scheduled') : g.time = scheduled'[i].time
          /\ events' = EventsOf(scheduled')]_vars

\* one check has scheduled step 0 (hi-hat, then kick) and step 4 (hi-hat,
\* then snare), a change event between the two voices of each
TwoVoicesScheduled ==
    /\ lastOp.op = "scheduler"
    /\ Len(scheduled) >= 5
    /\ scheduled[1].step = 0
    /\ Len(scheduled[1].hits) = 2
    /\ Len(scheduled[5].hits) = 2
    /\ Len(events) >= 8
    /\ events[2] = EvChange

\* C26: the triggers handed to the hardware only grow: no step removes or
\* alters one, only the scheduler adds any, and the ones it adds carry
\* the velocities the pattern holds when it runs.
QueuedTriggersKept ==
    [][/\ triggers \subseteq triggers'
       /\ lastOp'.op # "scheduler" => triggers' = triggers
       /\ lastOp'.op = "scheduler"
          => \A g \in triggers' \ triggers :
                 \E i \in 1..Len(scheduled') :
                     g = TriggerOf(g.drum, scheduled'[i].time,
                                   patterns[g.drum][scheduled'[i].step + 1])]_vars

\* reset() has restored velocity 80 in a cell whose trigger was queued at
\* velocity 100, next to the one queued at 80 by an earlier session
QueuedBeforeReset ==
    /\ lastOp.op = "reset"
    /\ patterns.hihat[1] = 80
    /\ TriggerOf("hihat", Num(0), 100) \in triggers
    /\ TriggerOf("hihat", Num(0), 80) \in triggers

\* C27: the audio context, the master gain, the analyser and the three
\* voices are created once, by the first play() (toggle() calls it), and
\* each voice renders once: no later call re-creates a node, starts a
\* second render or drops a rendered buffer.
RenderedOnce ==
    [][/\ \A n \in AudioNode : created'[n] = IF audioCtx' THEN 1 ELSE 0
       /\ \A d \in Instrument : renders'[d] = IF audioCtx' THEN 1 ELSE 0
       /\ <<created', renders'>> # <<created, renders>>
          => ~audioCtx /\ lastOp'.op \in {"play", "toggle"}
       /\ audioCtx => audioCtx' /\ rendering' \subseteq rendering
       /\ \A d \in Instrument : buffer[d] => buffer'[d]]_vars

\* play() is called again on a stopped machine that has scheduled steps,
\* once every render has completed
PlayedAgainAfterRender ==
    /\ lastOp.op = "play"
    /\ rendering = {}
    /\ \A d \in Instrument : buffer[d]
    /\ ~isPlaying
    /\ Len(scheduled) > 0

\* C28: the polling timer is installed exactly while the machine is
\* Playing, and it is the only one active.
TimerIffPlaying ==
    /\ (intervalId # 0) <=> isPlaying
    /\ timers = IF isPlaying THEN {intervalId} ELSE {}
    /\ Cardinality(timers) <= 1

\* a resume completes on a machine restarted after a stop(), with another
\* play() still suspended
RestartedWithPlayPending ==
    /\ lastOp.op = "play:resumed"
    /\ isPlaying
    /\ awaiting > 0
    /\ Len(scheduled) > 0

\* C29: once every suspended play() has settled, an even number of
\* toggle() calls has left the machine in the state it started in, Stopped:
\* in particular two toggle() calls from Stopped, the second before the
\* first one's resume has completed, cancel out.
EvenTogglesCancel ==
    (awaiting = 0 /\ ~flipped) => ~isPlaying

\* C30: whenever a polling callback hands a trigger to the audio hardware,
\* the trigger's timestamp is not earlier than the hardware clock, the
\* first step after play() included.
TriggersInFuture ==
    [][lastOp'.op = "scheduler"
       => \A i \in 1..Len(scheduled') :
              \A k \in 1..Len(scheduled'[i].hits) :
                  buffer[scheduled'[i].hits[k].drum]
                  => ~Lt(scheduled'[i].time, currentTime)]_vars

\* C31: current16th stays within 0..15 and is 0 whenever the machine is
\* Stopped; play() never writes it, before or after its await, so every
\* transition from Stopped to Playing starts at step 0.
CursorZeroWhenStopped ==
    /\ [](current16th \in 0..(StepCount - 1))
    /\ [](~isPlaying => current16th = 0)
    /\ [][/\ lastOp'.op \in {"play", "play:resumed"}
             => current16th' = current16th
          /\ (lastOp'.op = "toggle" /\ ~isPlaying)
             => current16th' = current16th
          /\ (~isPlaying /\ isPlaying') => current16th' = 0]_vars

\* the machine restarts after a stop() that found the cursor past step
\* 0, in a session whose last polling callback had wrapped past step 15
RestartedAfterWrap ==
    /\ lastOp.op = "play:resumed"
    /\ isPlaying
    /\ current16th = 0
    /\ reached > 0
    /\ \E i \in 1..Len(scheduled) : scheduled[i].step = StepCount - 1

=============================================================================
